---------------------------- MODULE Spec2Model ----------------------------
(***************************************************************************)
(* Model of the food-delivery route optimizer:                             *)
(*   - RouteOptimizer.optimize_route and its two TSP solvers               *)
(*     (src/route_optimizer.py),                                           *)
(*   - FirestoreStorage, the 24-hour route store, on its in-memory and     *)
(*     Firestore backends (src/firestore_storage.py),                      *)
(*   - the scheduled cleanup function (src/functions/main.py).             *)
(*                                                                         *)
(* RouteSpec runs one optimize_route call on a bounded family of provider  *)
(* responses.  StoreSpec runs the storage calls one after the other while  *)
(* time passes.  SweepSpec runs one cleanup, stepping through its scan /   *)
(* batch / commit loop, on a store that holds expired and live documents.  *)
(***************************************************************************)
EXTENDS Integers, Sequences, FiniteSets, TLC

VARIABLES
    \* ---- one optimize_route call (src/route_optimizer.py) ----
    rpc,            \* position in optimize_route
    k,              \* len(waypoints): number of addresses other than home
    provider,       \* what gmaps.distance_matrix does: "OK", an error status, "raise"
    elements,       \* distance_matrix['rows'][i]['elements'][j]
    distances,      \* distances[i][j], metres or inf
    durations,      \* durations[i][j], seconds or inf
    unvisited,      \* _nearest_neighbor_tsp: the set still to visit
    current,        \* _nearest_neighbor_tsp: the current position
    order,          \* _nearest_neighbor_tsp: the order built so far
    nn_iter,        \* number of completed iterations of the while loop
    optimal_order,  \* the order the solver returned (None when it returned None)
    result,         \* the dict optimize_route returns
    \* ---- the route store (src/firestore_storage.py, src/functions/main.py) ----
    db,             \* "none" (db is None: in-memory fallback) or "firestore"
    docs,           \* route code -> the stored document, or NoDocument
    now,            \* datetime.now(timezone.utc), in hours
    getc,           \* the get_route call in progress: its position and locals
    sweep,          \* the cleanup call in progress: its position and locals
    last            \* the storage call that returned last, and what it returned

routeVars == <<rpc, k, provider, elements, distances, durations, unvisited,
               current, order, nn_iter, optimal_order, result>>
storeVars == <<db, docs, now, getc, sweep, last>>
vars == <<routeVars, storeVars>>

-----------------------------------------------------------------------------
(* Bounds of the model.                                                    *)

\* Largest number of waypoints of a call; one more than the brute-force limit,
\* so that the nearest-neighbour branch runs.
MaxK == 9

\* Number of route codes; all of them hold a document when a cleanup is run
\* on its own.
MaxCodes == 6

\* Number of times the clock advances.
MaxTicks == 3

\* max_batch_size, the number of deletions per batch commit.  The source sets
\* it to 500 (src/firestore_storage.py:180, src/functions/main.py:54); the
\* model runs the same loop with a cap small enough to fill several batches.
MaxBatchSize == 2

-----------------------------------------------------------------------------
(* Values.                                                                 *)

\* float('inf'), the penalty written for an element whose status is not OK.
inf == -1

\* Python's None (no order, no error, no stored document's field).
None == <<>>

\* x + y on Python numbers, one of which may be float('inf').
Add(x, y) == IF x = inf \/ y = inf THEN inf ELSE x + y

\* x < y on Python numbers: inf < inf is False, every finite number is < inf.
Less(x, y) == x # inf /\ (y = inf \/ x < y)

\* The home address sits at index 0 of all_addresses, the waypoints at 1..k.
Home == 0

\* len(waypoint_indices) above which the heuristic replaces the exact search.
BruteForceLimit == 8

-----------------------------------------------------------------------------
(* The provider responses the calls are run on.                            *)

Cells(kk) == (0..kk) \X (0..kk)

OffDiagonal(kk) == {c \in Cells(kk) : c[1] # c[2]}

\* One element of the response: an OK element carries a distance and a
\* duration, any other element carries neither.
OkElement(d, t) == [status |-> "OK", distance |-> d, duration |-> t]
NotFound == [status |-> "NOT_FOUND", distance |-> 0, duration |-> 0]

\* Which cells a pattern leaves unreachable.
Masks == {"none", "from_home", "all", "sparse"}

Masked(mask, i, j) ==
    CASE mask = "none"      -> FALSE
      [] mask = "from_home" -> i = Home /\ j # Home
      [] mask = "all"       -> i # j
      [] mask = "sparse"    -> i # j /\ (i + 2 * j) % 4 = 1

\* Distances of a pattern: 1..3 metres, asymmetric, with many tied tours.
PatternDistance(a, b, i, j) == 1 + ((a * i + b * j + i * j * (i + 2)) % 3)

PatternElement(p, i, j) ==
    IF i = j THEN OkElement(0, 0)
    ELSE IF Masked(p[3], i, j) THEN NotFound
    ELSE LET d == PatternDistance(p[1], p[2], i, j)
         IN OkElement(d, 60 * d + 7 * i + j)

Patterns ==
    {<<a, b, "none">> : a \in 0..1, b \in 0..1} \cup {<<1, 0, m>> : m \in Masks}

PatternResponse(kk, p) ==
    [i \in 0..kk |-> [j \in 0..kk |-> PatternElement(p, i, j)]]

\* Every response over three addresses whose distances are 5, 10 or 15 metres
\* or unreachable (the three-address example of the specification is one).
SmallValues == {5, 10, 15, inf}

SmallResponse(f) ==
    [i \in 0..2 |-> [j \in 0..2 |->
        IF i = j THEN OkElement(0, 0)
        ELSE IF f[<<i, j>>] = inf THEN NotFound
        ELSE OkElement(f[<<i, j>>], 12 * f[<<i, j>>])]]

Responses(kk) ==
    {PatternResponse(kk, p) : p \in Patterns}
    \cup (IF kk = 2
          THEN {SmallResponse(f) : f \in [OffDiagonal(2) -> SmallValues]}
          ELSE {})

-----------------------------------------------------------------------------
(* RouteOptimizer: the solvers.                                            *)

\* waypoint_indices = list(range(1, n))
WaypointIndices(n) == [i \in 1..(n - 1) |-> i]

\* A variant of the order built below that does not come back to start.
OpenTour(start, perm) == <<start>> \o perm

\* [start] + list(perm) + [start]
ClosedTour(start, perm) == <<start>> \o perm \o <<start>>

\* A variant of the sum below that leaves out the leg back to the start.
RECURSIVE SumLegsOpen(_, _, _)
SumLegsOpen(matrix, ord, i) ==
    IF i >= Len(ord) - 1 THEN 0
    ELSE Add(matrix[ord[i]][ord[i + 1]], SumLegsOpen(matrix, ord, i + 1))

\* sum(distances[order[i]][order[i+1]] for i in range(len(order)-1))
RECURSIVE SumLegs(_, _, _)
SumLegs(matrix, ord, i) ==
    IF i >= Len(ord) THEN 0
    ELSE Add(matrix[ord[i]][ord[i + 1]], SumLegs(matrix, ord, i + 1))

TourDistance(matrix, ord) == SumLegs(matrix, ord, 1)

\* Variants of the test below: `<=` in place of `<`, and a test that keeps
\* the longer tour.
ImprovesOrTies(distance, min_distance) == ~Less(min_distance, distance)

ImprovesReversed(distance, min_distance) ==
    min_distance = inf \/ Less(min_distance, distance)

\* `if distance < min_distance`: the test that replaces the best order.
Improves(distance, min_distance) == Less(distance, min_distance)

\* The body of `for perm in itertools.permutations(waypoints)`, on one perm.
Consider(matrix, start, perm, best) ==
    LET ord == ClosedTour(start, perm)
        distance == TourDistance(matrix, ord)
    IN IF Improves(distance, best.min_distance)
       THEN [min_distance |-> distance, best_order |-> ord]
       ELSE best

\* The for loop: itertools.permutations yields the permutations of waypoints
\* in the order of their positions, so a permutation is extended by the
\* unused waypoint of lowest position first.  PermLoop runs the loop body on
\* every permutation that extends perm by waypoints at positions >= c, and
\* then on those after it, threading (min_distance, best_order) through.
RECURSIVE PermLoop(_, _, _, _, _, _)
PermLoop(matrix, start, waypoints, perm, c, best) ==
    IF Len(perm) = Len(waypoints) THEN Consider(matrix, start, perm, best)
    ELSE IF c > Len(waypoints) THEN best
    ELSE IF \E i \in 1..Len(perm) : perm[i] = waypoints[c]
         THEN PermLoop(matrix, start, waypoints, perm, c + 1, best)
    ELSE LET below == PermLoop(matrix, start, waypoints,
                               Append(perm, waypoints[c]), 1, best)
         IN IF below = below  \* evaluate the subtree before going on
            THEN PermLoop(matrix, start, waypoints, perm, c + 1, below)
            ELSE best

\* _brute_force_tsp: best_order, which is None when no tour was < inf.
BruteForceTsp(matrix, start, waypoints) ==
    IF Len(waypoints) = 0 THEN <<start, start>>
    ELSE PermLoop(matrix, start, waypoints, <<>>, 1,
                  [min_distance |-> inf, best_order |-> None]).best_order

\* A variant of the choice below that takes the last of several nearest.
NearestOrLater(matrix, cur, unv) ==
    CHOOSE x \in unv :
        /\ \A y \in unv : ~Less(matrix[cur][y], matrix[cur][x])
        /\ \A y \in unv : matrix[cur][y] = matrix[cur][x] => y <= x

\* min(unvisited, key=lambda x: distances[current][x]): the first element, in
\* the iteration order of the set, whose key no other element is below.  A
\* set of small ints iterates in increasing order in CPython.
Nearest(matrix, cur, unv) ==
    CHOOSE x \in unv :
        /\ \A y \in unv : ~Less(matrix[cur][y], matrix[cur][x])
        /\ \A y \in unv : matrix[cur][y] = matrix[cur][x] => x <= y

\* A variant of the removal below that leaves the set as it is.
AfterVisitKeeps(unv, nearest) == unv

\* unvisited.remove(nearest)
AfterVisit(unv, nearest) == unv \ {nearest}

\* The elements of a list.
Range(s) == {s[i] : i \in 1..Len(s)}

-----------------------------------------------------------------------------
(* RouteOptimizer: building the result.                                    *)

\* 'error': None in the dict of a successful call.
NoError == "None"

\* A variant of the dict below that carries a share URL.
ErrorResultWithUrl(msg) ==
    [error |-> msg, route |-> <<>>, total_distance |-> 0,
     total_duration |-> 0,
     google_maps_url |-> <<"https://www.google.com/maps/dir/">>]

\* The dict returned on every failure path.
ErrorResult(msg) ==
    [error |-> msg, route |-> <<>>, total_distance |-> 0,
     total_duration |-> 0, google_maps_url |-> <<>>]

\* A variant of the steps below numbered from 0.
RouteStepsFromZero(ord) ==
    [i \in 1..Len(ord) |->
        [step |-> i - 1, address |-> ord[i], notes |-> ord[i],
         is_home |-> (ord[i] = 0)]]

\* route: one step per element of optimal_order.  An address and its notes
\* are stood for by the index of the address in all_addresses.
RouteSteps(ord) ==
    [i \in 1..Len(ord) |->
        [step |-> i, address |-> ord[i], notes |-> ord[i],
         is_home |-> (ord[i] = 0)]]

\* A variant of the URL below that is empty.
GoogleMapsUrlEmpty(ord) == <<>>

\* _generate_google_maps_url: the base URL followed by the quoted addresses
\* in visiting order, joined by '/'.
GoogleMapsUrl(ord) == <<"https://www.google.com/maps/dir/">> \o ord

\* round(total / per, digits) as the integer number of 10^-digits units, where
\* unit = per / 10^digits.  The quotient is a binary float, so a total that
\* lies exactly half way may round either way; inf stays inf.
Rounded(total, unit) ==
    IF total = inf THEN {inf}
    ELSE LET q == total \div unit
             r == 2 * (total % unit)
         IN IF r < unit THEN {q} ELSE IF r > unit THEN {q + 1} ELSE {q, q + 1}

-----------------------------------------------------------------------------
(* RouteOptimizer.optimize_route, one action per stage of the call.        *)

\* The state of the route variables before the call has fetched anything.
RouteIdle ==
    /\ distances = None /\ durations = None
    /\ unvisited = {} /\ current = Home /\ order = None /\ nn_iter = 0
    /\ optimal_order = None /\ result = None

\* A call of optimize_route(addresses, home_index) with k waypoints, and
\* what the distance matrix provider will answer.
RouteInit ==
    /\ rpc = "call"
    /\ k \in 0..MaxK
    /\ provider \in {"OK", "REQUEST_DENIED", "raise"}
    /\ elements \in Responses(k)
    /\ provider # "OK" => elements = PatternResponse(k, <<0, 0, "none">>)
    /\ RouteIdle

\* `if not waypoints`: the call returns before it asks the provider.
NoWaypoints ==
    /\ rpc = "call" /\ k = 0
    /\ result' = ErrorResult("No waypoints to visit (only home address found)")
    /\ rpc' = "done"
    /\ UNCHANGED <<k, provider, elements, distances, durations, unvisited,
                   current, order, nn_iter, optimal_order>>
    /\ UNCHANGED storeVars

\* gmaps.distance_matrix raises: the except clause builds the result.
ProviderRaises ==
    /\ rpc = "call" /\ k > 0 /\ provider = "raise"
    /\ result' = ErrorResult("Route optimization failed")
    /\ rpc' = "done"
    /\ UNCHANGED <<k, provider, elements, distances, durations, unvisited,
                   current, order, nn_iter, optimal_order>>
    /\ UNCHANGED storeVars

\* `if distance_matrix['status'] != 'OK'`
ProviderStatusNotOk ==
    /\ rpc = "call" /\ k > 0 /\ provider \notin {"OK", "raise"}
    /\ result' = ErrorResult("Distance Matrix API error")
    /\ rpc' = "done"
    /\ UNCHANGED <<k, provider, elements, distances, durations, unvisited,
                   current, order, nn_iter, optimal_order>>
    /\ UNCHANGED storeVars

\* The two nested loops that fill distances and durations.
ExtractMatrices ==
    /\ rpc = "call" /\ k > 0 /\ provider = "OK"
    /\ distances' = [i \in 0..k |-> [j \in 0..k |->
                        IF elements[i][j].status = "OK"
                        THEN elements[i][j].distance ELSE inf]]
    /\ durations' = [i \in 0..k |-> [j \in 0..k |->
                        IF elements[i][j].status = "OK"
                        THEN elements[i][j].duration ELSE inf]]
    /\ rpc' = "solve"
    /\ UNCHANGED <<k, provider, elements, unvisited, current, order, nn_iter,
                   optimal_order, result>>
    /\ UNCHANGED storeVars

\* `if len(waypoint_indices) <= 1`: the order is fixed.
SolveTrivial ==
    /\ rpc = "solve" /\ k <= 1
    /\ optimal_order' = <<Home>> \o WaypointIndices(k + 1) \o <<Home>>
    /\ rpc' = "assemble"
    /\ UNCHANGED <<k, provider, elements, distances, durations, unvisited,
                   current, order, nn_iter, result>>
    /\ UNCHANGED storeVars

\* The call of _brute_force_tsp(distances, 0, waypoint_indices).
SolveBruteForce ==
    /\ rpc = "solve" /\ k > 1 /\ k <= BruteForceLimit
    /\ optimal_order' = BruteForceTsp(distances, Home, WaypointIndices(k + 1))
    /\ rpc' = "assemble"
    /\ UNCHANGED <<k, provider, elements, distances, durations, unvisited,
                   current, order, nn_iter, result>>
    /\ UNCHANGED storeVars

\* _nearest_neighbor_tsp(distances, 0, waypoint_indices) up to its loop.
NearestNeighborStart ==
    /\ rpc = "solve" /\ k > BruteForceLimit
    /\ unvisited' = Range(WaypointIndices(k + 1))
    /\ current' = Home
    /\ order' = <<Home>>
    /\ nn_iter' = 0
    /\ rpc' = "nn_loop"
    /\ UNCHANGED <<k, provider, elements, distances, durations, optimal_order,
                   result>>
    /\ UNCHANGED storeVars

\* One iteration of `while unvisited`.
NearestNeighborStep ==
    /\ rpc = "nn_loop" /\ unvisited # {}
    /\ LET nearest == Nearest(distances, current, unvisited)
       IN /\ order' = Append(order, nearest)
          /\ unvisited' = AfterVisit(unvisited, nearest)
          /\ current' = nearest
    /\ nn_iter' = nn_iter + 1
    /\ UNCHANGED <<rpc, k, provider, elements, distances, durations,
                   optimal_order, result>>
    /\ UNCHANGED storeVars

\* The loop has ended: order.append(start); return order.
NearestNeighborReturn ==
    /\ rpc = "nn_loop" /\ unvisited = {}
    /\ order' = Append(order, Home)
    /\ optimal_order' = Append(order, Home)
    /\ rpc' = "assemble"
    /\ UNCHANGED <<k, provider, elements, distances, durations, unvisited,
                   current, nn_iter, result>>
    /\ UNCHANGED storeVars

\* `for i, idx in enumerate(optimal_order)` on None raises TypeError, which
\* the except clause turns into an error result.
AssembleRaises ==
    /\ rpc = "assemble" /\ optimal_order = None
    /\ result' = ErrorResult("Route optimization failed")
    /\ rpc' = "done"
    /\ UNCHANGED <<k, provider, elements, distances, durations, unvisited,
                   current, order, nn_iter, optimal_order>>
    /\ UNCHANGED storeVars

\* The route, the totals, the URL and the successful return.
Assemble ==
    /\ rpc = "assemble" /\ optimal_order # None
    /\ \E km \in Rounded(SumLegs(distances, optimal_order, 1), 10),
          mn \in Rounded(SumLegs(durations, optimal_order, 1), 6) :
          result' = [error |-> NoError,
                     route |-> RouteSteps(optimal_order),
                     total_distance |-> km,
                     total_duration |-> mn,
                     google_maps_url |-> GoogleMapsUrl(optimal_order)]
    /\ rpc' = "done"
    /\ UNCHANGED <<k, provider, elements, distances, durations, unvisited,
                   current, order, nn_iter, optimal_order>>
    /\ UNCHANGED storeVars

RouteNext ==
    \/ NoWaypoints
    \/ ProviderRaises
    \/ ProviderStatusNotOk
    \/ ExtractMatrices
    \/ SolveTrivial
    \/ SolveBruteForce
    \/ NearestNeighborStart
    \/ NearestNeighborStep
    \/ NearestNeighborReturn
    \/ AssembleRaises
    \/ Assemble

-----------------------------------------------------------------------------
(* FirestoreStorage: values.                                               *)

\* self.expiration_hours
expiration_hours == 24

\* The clock advances by half a lifetime at a time, so that a call can fall
\* inside a document's lifetime, on its last instant and after it.
TickHours == expiration_hours \div 2

\* The route codes: the ids of the documents of the collection.
Codes == 1..MaxCodes

\* The two codes the put / get / delete calls are made on.
CallCodes == {1, 2}

\* route_data as app.py builds it: the four fields of an optimization result.
RouteData(x) ==
    [route |-> <<x>>, total_distance |-> x, total_duration |-> x + 10,
     google_maps_url |-> <<x + 20>>]

RouteDatas == {RouteData(1), RouteData(2)}

\* No document under a code: dict.get returns None, doc.exists is False.
NoDocument == None

\* A variant of the timestamp below, half a lifetime further.
ExpiresAtLater(t) == t + expiration_hours + TickHours

\* _get_expires_at at time t
ExpiresAt(t) == t + expiration_hours

\* A variant of the entry below that expires half a lifetime later.
InMemoryEntryLate(route_data, t) ==
    [expires_at |-> ExpiresAt(t) + TickHours] @@ route_data

\* {**route_data, 'expires_at': ...}: the keys written last win.
InMemoryEntry(route_data, t) ==
    [expires_at |-> ExpiresAt(t)] @@ route_data

\* {**route_data, 'created_at': SERVER_TIMESTAMP, 'expires_at': ...}
FirestoreDocument(route_data, t) ==
    [created_at |-> t, expires_at |-> ExpiresAt(t)] @@ route_data

\* A variant of the test below with `<=` in place of `<`.
ExpiredAtOrAfter(data, t) == data.expires_at <= t

\* `expires_at < datetime.now(timezone.utc)`
Expired(data, t) == data.expires_at < t

\* A variant of the projection below that returns the stored dict whole.
WithMetadata(data) == data

\* "Return route data without metadata": the four fields get_route returns.
WithoutMetadata(data) ==
    [route |-> data.route,
     total_distance |-> data.total_distance,
     total_duration |-> data.total_duration,
     google_maps_url |-> data.google_maps_url]

\* A variant of the write below that keeps a document the code already
\* holds and writes only under a code that holds none.
SetIfAbsent(store, code, document) ==
    IF store[code] = NoDocument THEN [store EXCEPT ![code] = document]
    ELSE store

\* `self._in_memory_storage[route_code] = {...}` and doc_ref.set({...})
\* without merge: the document takes the place of whatever the code held.
SetDocument(store, code, document) == [store EXCEPT ![code] = document]

\* A variant of the deletion below that leaves the document in place.
KeepDocument(store, code) == store

\* `del self._in_memory_storage[route_code]`, pop(route_code, None) and
\* doc_ref.delete(): the store without the document of the code.
DeleteDocument(store, code) == [store EXCEPT ![code] = NoDocument]

\* The codes of the documents a cleanup finds expired at time t.
ExpiredCodes(store, t) ==
    {c \in DOMAIN store : store[c] # NoDocument /\ Expired(store[c], t)}

\* The stream of where('expires_at', '<', now): the expired documents in the
\* order of the query, by expires_at and then by document id.
RECURSIVE Stream(_, _)
Stream(store, S) ==
    IF S = {} THEN <<>>
    ELSE LET first == CHOOSE c \in S : \A e \in S :
                          \/ store[c].expires_at < store[e].expires_at
                          \/ /\ store[c].expires_at = store[e].expires_at
                             /\ c <= e
         IN <<first>> \o Stream(store, S \ {first})

\* A variant of the removal below that removes nothing.
KeepAll(store, S) == store

\* The store without the documents of the codes in S.
Without(store, S) ==
    [c \in DOMAIN store |-> IF c \in S THEN NoDocument ELSE store[c]]

\* What `last` holds before any call has returned.
NoCall == [op |-> "none", code |-> 0, value |-> None, ok |-> TRUE,
           prior |-> <<"none", 0, TRUE>>]

\* A call that has returned: value is what it returned, ok is FALSE when a
\* backend call raised inside it, prior names the call that returned before.
Returned(op, code, value, ok) ==
    [op |-> op, code |-> code, value |-> value, ok |-> ok,
     prior |-> <<last.op, last.code, last.ok>>]

\* The JSON the optimize-route endpoint answers with after its store_route
\* call `call` has returned: the code and the four fields, whether store_route
\* returned True or False (its return value is not looked at).
OptimizeRouteResponse(call) ==
    [route_code |-> call.code,
     route |-> call.value.route,
     total_distance |-> call.value.total_distance,
     total_duration |-> call.value.total_duration,
     google_maps_url |-> call.value.google_maps_url]

GetIdle == [pc |-> "idle", code |-> 0, data |-> NoDocument]

SweepIdle == [pc |-> "idle"]

\* No storage call is in progress: the calls are made one after the other.
Idle == getc.pc = "idle" /\ sweep.pc = "idle"

-----------------------------------------------------------------------------
(* FirestoreStorage: store_route, get_route, delete_route.                 *)

\* store_route on the in-memory fallback.
StoreRouteInMemory(code, route_data) ==
    /\ Idle /\ db = "none"
    /\ docs' = SetDocument(docs, code, InMemoryEntry(route_data, now))
    /\ last' = Returned("put", code, route_data, TRUE)
    /\ UNCHANGED <<db, now, getc, sweep>>
    /\ UNCHANGED routeVars

\* store_route on Firestore: doc_ref.set either writes the document, or
\* raises and store_route returns False.
StoreRouteFirestoreStep(code, route_data) ==
    /\ db = "firestore"
    /\ \/ /\ docs' = SetDocument(docs, code,
                                  FirestoreDocument(route_data, now))
          /\ last' = Returned("put", code, route_data, TRUE)
       \/ /\ docs' = docs
          /\ last' = Returned("put", code, route_data, FALSE)
    /\ UNCHANGED <<db, now, getc, sweep>>
    /\ UNCHANGED routeVars

\* The same, called while no other storage call is in progress.
StoreRouteFirestore(code, route_data) ==
    Idle /\ StoreRouteFirestoreStep(code, route_data)

\* get_route on the in-memory fallback.
GetRouteInMemory(code) ==
    /\ Idle /\ db = "none"
    /\ LET data == docs[code]
       IN IF data = NoDocument
          THEN /\ docs' = docs
               /\ last' = Returned("get", code, None, TRUE)
          ELSE IF Expired(data, now)
          THEN /\ docs' = DeleteDocument(docs, code)
               /\ last' = Returned("get", code, None, TRUE)
          ELSE /\ docs' = docs
               /\ last' = Returned("get", code, WithoutMetadata(data), TRUE)
    /\ UNCHANGED <<db, now, getc, sweep>>
    /\ UNCHANGED routeVars

\* get_route on Firestore, up to the expiry check: doc_ref.get() raises, or
\* finds no document, or returns the document's snapshot.
GetRouteReadStep(code) ==
    /\ getc.pc = "idle" /\ db = "firestore"
    /\ \/ /\ last' = Returned("get", code, None, FALSE)
          /\ getc' = getc
       \/ /\ docs[code] = NoDocument
          /\ last' = Returned("get", code, None, TRUE)
          /\ getc' = getc
       \/ /\ docs[code] # NoDocument
          /\ getc' = [pc |-> "check", code |-> code, data |-> docs[code]]
          /\ last' = last
    /\ UNCHANGED <<db, docs, now, sweep>>
    /\ UNCHANGED routeVars

\* The same, called while no other storage call is in progress.
GetRouteRead(code) == Idle /\ GetRouteReadStep(code)

\* get_route on Firestore, from the expiry check on: an expired document is
\* deleted (doc_ref.delete() may raise) and None returned, any other is
\* returned without its metadata.
GetRouteCheck ==
    /\ getc.pc = "check"
    /\ IF Expired(getc.data, now)
       THEN \/ /\ docs' = DeleteDocument(docs, getc.code)
               /\ last' = Returned("get", getc.code, None, TRUE)
            \/ /\ docs' = docs
               /\ last' = Returned("get", getc.code, None, FALSE)
       ELSE /\ docs' = docs
            /\ last' = Returned("get", getc.code, WithoutMetadata(getc.data), TRUE)
    /\ getc' = GetIdle
    /\ UNCHANGED <<db, now, sweep>>
    /\ UNCHANGED routeVars

\* delete_route on the in-memory fallback: pop(route_code, None).
DeleteRouteInMemory(code) ==
    /\ Idle /\ db = "none"
    /\ docs' = DeleteDocument(docs, code)
    /\ last' = Returned("delete", code, None, TRUE)
    /\ UNCHANGED <<db, now, getc, sweep>>
    /\ UNCHANGED routeVars

\* delete_route on Firestore: the delete succeeds (also on a missing
\* document), or raises and the error is printed.
DeleteRouteFirestore(code) ==
    /\ Idle /\ db = "firestore"
    /\ \/ /\ docs' = DeleteDocument(docs, code)
          /\ last' = Returned("delete", code, None, TRUE)
       \/ /\ docs' = docs
          /\ last' = Returned("delete", code, None, FALSE)
    /\ UNCHANGED <<db, now, getc, sweep>>
    /\ UNCHANGED routeVars

\* Time passes.
Tick ==
    /\ now < MaxTicks * TickHours
    /\ now' = now + TickHours
    /\ UNCHANGED <<db, docs, getc, sweep, last>>
    /\ UNCHANGED routeVars

-----------------------------------------------------------------------------
(* The cleanup of expired routes: FirestoreStorage.cleanup_expired_routes  *)
(* ("storage") and the scheduled function cleanup_expired_routes of        *)
(* functions/main.py ("function").  On Firestore both run the same scan /  *)
(* batch / commit loop and differ in how they end.                         *)

\* A cleanup call that has returned or raised.  counts is the final
\* (deleted_count, error_count); value is what the caller gets: the pair from
\* the storage method, None from the scheduled function, "raised" when the
\* function re-raises.
CleanupReturned(impl, value, counts) ==
    [op |-> "cleanup", code |-> 0, value |-> value, ok |-> (value # "raised"),
     prior |-> <<last.op, last.code, last.ok>>, impl |-> impl,
     counts |-> counts]

\* cleanup_expired_routes on the in-memory fallback.
CleanupInMemory ==
    /\ Idle /\ db = "none"
    /\ LET expired_codes == ExpiredCodes(docs, now)
           n == Cardinality(expired_codes)
       IN /\ docs' = Without(docs, expired_codes)
          /\ last' = CleanupReturned("storage", <<n, 0>>, <<n, 0>>)
    /\ UNCHANGED <<db, now, getc, sweep>>
    /\ UNCHANGED routeVars

\* The start of a cleanup on Firestore: the counters and `now`.  commits lists
\* the batch commits attempted so far, with the codes of each batch and
\* whether it committed; before is the store as it was when the call began.
CleanupBegin(impl) ==
    /\ sweep.pc = "idle" /\ db = "firestore"
    /\ sweep' = [pc |-> "query", impl |-> impl, now |-> now,
                 expired_routes |-> <<>>, batch |-> <<>>, batch_count |-> 0,
                 deleted_count |-> 0, error_count |-> 0,
                 commits |-> <<>>, before |-> docs]
    /\ UNCHANGED <<db, docs, now, getc, last>>
    /\ UNCHANGED routeVars

\* The same, called while no other storage call is in progress.
CleanupStart(impl) == Idle /\ CleanupBegin(impl)

\* routes_ref.where('expires_at', '<', now).stream() and the first batch.
CleanupQuery ==
    /\ sweep.pc = "query"
    /\ sweep' = [sweep EXCEPT
                    !.pc = "loop",
                    !.expired_routes = Stream(docs, ExpiredCodes(docs, sweep.now))]
    /\ UNCHANGED <<db, docs, now, getc, last>>
    /\ UNCHANGED routeVars

\* The query raises before it yields a document.
CleanupQueryRaises ==
    /\ sweep.pc = "query"
    /\ sweep' = [sweep EXCEPT !.pc = "raised"]
    /\ UNCHANGED <<db, docs, now, getc, last>>
    /\ UNCHANGED routeVars

\* A variant of the test below with `>` in place of `>=`.
BatchOverfull(batch_count) == batch_count > MaxBatchSize

\* `if batch_count >= max_batch_size`
BatchFull(batch_count) == batch_count >= MaxBatchSize

\* `for doc in expired_routes`: batch.delete(doc.reference), and the test
\* that sends a full batch to its commit.
CleanupNextDocument ==
    /\ sweep.pc = "loop" /\ sweep.expired_routes # <<>>
    /\ sweep' = [sweep EXCEPT
                    !.expired_routes = Tail(sweep.expired_routes),
                    !.batch = Append(sweep.batch, Head(sweep.expired_routes)),
                    !.batch_count = sweep.batch_count + 1,
                    !.pc = IF BatchFull(sweep.batch_count + 1)
                           THEN "commit" ELSE "loop"]
    /\ UNCHANGED <<db, docs, now, getc, last>>
    /\ UNCHANGED routeVars

\* The stream raises while it is iterated.
CleanupStreamRaises ==
    /\ sweep.pc = "loop" /\ sweep.expired_routes # <<>>
    /\ sweep' = [sweep EXCEPT !.pc = "raised"]
    /\ UNCHANGED <<db, docs, now, getc, last>>
    /\ UNCHANGED routeVars

\* What a batch commit that succeeds does to the locals, and one that raises.
Committed(sw) ==
    [sw EXCEPT !.deleted_count = sw.deleted_count + sw.batch_count,
               !.commits = Append(sw.commits, <<sw.batch, TRUE>>),
               !.batch = <<>>, !.batch_count = 0]

\* A variant of the except branch below that counts a failed batch as deleted.
CommitFailedAsDeleted(sw) ==
    [sw EXCEPT !.deleted_count = sw.deleted_count + sw.batch_count,
               !.commits = Append(sw.commits, <<sw.batch, FALSE>>),
               !.batch = <<>>, !.batch_count = 0]

\* The except branch of a commit: the batch is counted in error_count.
CommitFailed(sw) ==
    [sw EXCEPT !.error_count = sw.error_count + sw.batch_count,
               !.commits = Append(sw.commits, <<sw.batch, FALSE>>),
               !.batch = <<>>, !.batch_count = 0]

\* batch.commit() of a full batch, inside the loop.
CleanupCommitBatch ==
    /\ sweep.pc = "commit"
    /\ \/ /\ docs' = Without(docs, Range(sweep.batch))
          /\ sweep' = [Committed(sweep) EXCEPT !.pc = "loop"]
       \/ /\ docs' = docs
          /\ sweep' = [CommitFailed(sweep) EXCEPT !.pc = "loop"]
    /\ UNCHANGED <<db, now, getc, last>>
    /\ UNCHANGED routeVars

\* "Commit remaining deletions": `if batch_count > 0` after the loop.
CleanupCommitRemaining ==
    /\ sweep.pc = "loop" /\ sweep.expired_routes = <<>> /\ sweep.batch_count > 0
    /\ \/ /\ docs' = Without(docs, Range(sweep.batch))
          /\ sweep' = [Committed(sweep) EXCEPT !.pc = "return"]
       \/ /\ docs' = docs
          /\ sweep' = [CommitFailed(sweep) EXCEPT !.pc = "return"]
    /\ UNCHANGED <<db, now, getc, last>>
    /\ UNCHANGED routeVars

\* The loop has ended with nothing left to commit.
CleanupNothingRemaining ==
    /\ sweep.pc = "loop" /\ sweep.expired_routes = <<>> /\ sweep.batch_count = 0
    /\ sweep' = [sweep EXCEPT !.pc = "return"]
    /\ UNCHANGED <<db, docs, now, getc, last>>
    /\ UNCHANGED routeVars

\* The storage method returns (deleted_count, error_count); the scheduled
\* function prints the two counts and returns None.
CleanupReturn ==
    /\ sweep.pc = "return"
    /\ LET counts == <<sweep.deleted_count, sweep.error_count>>
       IN last' = CleanupReturned(sweep.impl,
                                  IF sweep.impl = "storage" THEN counts ELSE None,
                                  counts)
    /\ sweep' = SweepIdle
    /\ UNCHANGED <<db, docs, now, getc>>
    /\ UNCHANGED routeVars

\* The outer except clause: the storage method returns
\* (deleted_count, error_count + 1), the scheduled function re-raises.
CleanupExcept ==
    /\ sweep.pc = "raised"
    /\ last' = IF sweep.impl = "storage"
               THEN LET counts == <<sweep.deleted_count, sweep.error_count + 1>>
                    IN CleanupReturned("storage", counts, counts)
               ELSE CleanupReturned("function", "raised",
                                    <<sweep.deleted_count, sweep.error_count>>)
    /\ sweep' = SweepIdle
    /\ UNCHANGED <<db, docs, now, getc>>
    /\ UNCHANGED routeVars

CleanupSteps ==
    \/ CleanupQuery
    \/ CleanupQueryRaises
    \/ CleanupNextDocument
    \/ CleanupStreamRaises
    \/ CleanupCommitBatch
    \/ CleanupCommitRemaining
    \/ CleanupNothingRemaining
    \/ CleanupReturn
    \/ CleanupExcept

-----------------------------------------------------------------------------
(* Specifications.                                                         *)

\* The store before any call: it was built on one of the two backends, holds
\* nothing, and the clock is at 0.
StoreEmpty ==
    /\ db \in {"none", "firestore"}
    /\ docs = [c \in Codes |-> NoDocument]
    /\ now = 0
    /\ getc = GetIdle /\ sweep = SweepIdle /\ last = NoCall

\* The route variables while no optimize_route call is looked at.
RouteUnused ==
    /\ rpc = "done" /\ k = 0 /\ provider = "OK"
    /\ elements = PatternResponse(0, <<0, 0, "none">>)
    /\ RouteIdle

\* One optimize_route call.
RouteSpecInit ==
    /\ RouteInit
    /\ StoreEmpty
    /\ db = "none"

RouteSpec ==
    RouteSpecInit /\ [][RouteNext]_vars

\* Storage calls on route codes, one after the other, while time passes.
StoreNext ==
    \/ \E c \in CallCodes, d \in RouteDatas : StoreRouteInMemory(c, d)
    \/ \E c \in CallCodes, d \in RouteDatas : StoreRouteFirestore(c, d)
    \/ \E c \in CallCodes : GetRouteInMemory(c)
    \/ \E c \in CallCodes : GetRouteRead(c)
    \/ GetRouteCheck
    \/ \E c \in CallCodes : DeleteRouteInMemory(c)
    \/ \E c \in CallCodes : DeleteRouteFirestore(c)
    \/ CleanupInMemory
    \/ CleanupStart("storage")
    \/ CleanupSteps
    \/ Tick

StoreSpecInit ==
    /\ StoreEmpty
    /\ RouteUnused

StoreSpec ==
    StoreSpecInit /\ [][StoreNext]_vars

\* A store that earlier calls of store_route have filled: at time `now`
\* every code holds a document that expired one tick ago, or one that expires
\* at this instant, or one with half its lifetime left.
SweepInit ==
    /\ db \in {"none", "firestore"}
    /\ now = 2 * expiration_hours
    /\ \E age \in [Codes -> {1, 2, 3}] :
          docs = [c \in Codes |->
                    IF db = "none"
                    THEN InMemoryEntry(RouteData(1), now - age[c] * TickHours)
                    ELSE FirestoreDocument(RouteData(1), now - age[c] * TickHours)]
    /\ getc = GetIdle /\ sweep = SweepIdle /\ last = NoCall

\* One cleanup of such a store, by the storage method or by the scheduled
\* function.
SweepNext ==
    \/ last.op = "none" /\ CleanupInMemory
    \/ last.op = "none" /\ \E impl \in {"storage", "function"} : CleanupStart(impl)
    \/ CleanupSteps

SweepSpecInit ==
    /\ SweepInit
    /\ RouteUnused

SweepSpec ==
    SweepSpecInit /\ [][SweepNext]_vars

\* The code that a get_route and a cleanup race on.
RacedCode == 1

\* A Firestore store as in SweepInit in which the documents of the raced code
\* and of some of the codes after it have expired and the others are live.
RaceInit ==
    /\ SweepInit
    /\ db = "firestore"
    /\ \E n \in RacedCode..MaxCodes :
          \A c \in Codes : Expired(docs[c], now) <=> c <= n
    /\ \A c \in Codes : docs[c].expires_at # now
    /\ RouteUnused

\* get_route calls (made by request handlers) and cleanups (made by the
\* scheduler) that run at the same time: the steps of the two interleave in
\* every order.
RaceNext ==
    \/ \E c \in CallCodes : GetRouteReadStep(c)
    \/ GetRouteCheck
    \/ \E impl \in {"storage", "function"} : CleanupBegin(impl)
    \/ CleanupSteps

RaceSpec ==
    RaceInit /\ [][RaceNext]_vars

\* The same with store_route calls that write a new route under the raced
\* code, at any moment of a get_route or of a cleanup.
PutRaceNext ==
    \/ StoreRouteFirestoreStep(RacedCode, RouteData(2))
    \/ GetRouteReadStep(RacedCode)
    \/ GetRouteCheck
    \/ \E impl \in {"storage", "function"} : CleanupBegin(impl)
    \/ CleanupSteps

PutRaceSpec ==
    RaceInit /\ [][PutRaceNext]_vars

-----------------------------------------------------------------------------
(* Properties of the solvers (under RouteSpec).                            *)

\* All orderings of the elements of S, as sequences.
RECURSIVE Perms(_)
Perms(S) ==
    IF S = {} THEN {<<>>}
    ELSE UNION {{<<x>> \o p : p \in Perms(S \ {x})} : x \in S}

\* p comes before q, or is q, in lexicographic order.
LexLeq(p, q) ==
    \/ p = q
    \/ \E i \in 1..Len(p) :
          /\ \A j \in 1..(i - 1) : p[j] = q[j]
          /\ p[i] < q[i]

\* The solver has returned, on matrices that the provider filled.
Solved == rpc \in {"assemble", "done"} /\ provider = "OK" /\ k >= 1

\* No cell of the distance matrix is float('inf').
AllFinite == \A i \in 0..k : \A j \in 0..k : distances[i][j] # inf

\* ord starts and ends at home and visits each of the waypoints 1..k once.
IsClosedTour(ord) ==
    /\ Len(ord) = k + 2
    /\ ord[1] = Home /\ ord[k + 2] = Home
    /\ \A w \in 1..k : Cardinality({i \in 2..(k + 1) : ord[i] = w}) = 1

\* The waypoints of a closed tour, without the home at both ends.
Interior(ord) == SubSeq(ord, 2, Len(ord) - 1)

\* The exact solver has just returned.
ExactSolved ==
    rpc = "assemble" /\ provider = "OK" /\ k >= 2 /\ k <= BruteForceLimit

\* C1: on a distance matrix without unreachable cells, the order computed for
\* k >= 1 waypoints (fixed for k = 1, exact for 2 <= k <= 8, nearest
\* neighbour for k > 8) has k + 2 elements, starts and ends at home (index 0)
\* and holds each of the waypoints 1..k exactly once in between.
C1_OrderIsClosedTour ==
    (Solved /\ AllFinite) =>
        (optimal_order # None /\ IsClosedTour(optimal_order))

\* The exact solver returned a closed tour of the largest number of waypoints
\* it is used for, and the call has returned it.
C1_Witness ==
    /\ rpc = "done" /\ provider = "OK" /\ k = BruteForceLimit /\ AllFinite
    /\ result.error = NoError
    /\ Len(result.route) = k + 2

\* C2: for 2 <= k <= 8 and a distance matrix without unreachable cells, no
\* permutation of the waypoints gives a closed tour home -> permutation ->
\* home that is shorter than the tour _brute_force_tsp returned.
C2_ExactIsMinimal ==
    (ExactSolved /\ AllFinite) =>
        /\ optimal_order # None
        /\ \A q \in Perms(1..k) :
              ~Less(TourDistance(distances, <<Home>> \o q \o <<Home>>),
                    TourDistance(distances, optimal_order))

\* The exact solver returned, for 8 waypoints, a tour strictly shorter than
\* the first one it looked at.
C2_Witness ==
    /\ ExactSolved /\ AllFinite /\ k = BruteForceLimit
    /\ optimal_order # None
    /\ Less(TourDistance(distances, optimal_order),
            TourDistance(distances, <<Home>> \o WaypointIndices(k + 1) \o <<Home>>))

\* C3 (as claimed): whenever several permutations reach the minimum tour
\* cost, the exact solver returns the first of them in generation order
\* (lexicographic in the waypoint indices); on [Home, A, B] with symmetric
\* costs Home-A = 10, Home-B = 15, A-B = 5 it returns [Home, A, B, Home], of
\* cost 30.
C3_FirstMinimumWins ==
    ExactSolved =>
        /\ optimal_order # None
        /\ IsClosedTour(optimal_order)
        /\ \A q \in Perms(1..k) :
              LET dq == TourDistance(distances, <<Home>> \o q \o <<Home>>)
                  best == TourDistance(distances, optimal_order)
              IN /\ ~Less(dq, best)
                 /\ dq = best => LexLeq(Interior(optimal_order), q)
        /\ (/\ k = 2
            /\ distances[0][1] = 10 /\ distances[1][0] = 10
            /\ distances[0][2] = 15 /\ distances[2][0] = 15
            /\ distances[1][2] = 5 /\ distances[2][1] = 5)
           => (/\ optimal_order = <<0, 1, 2, 0>>
               /\ TourDistance(distances, optimal_order) = 30)

\* The same statement where the minimum is finite, which is where the code
\* follows it: a later permutation replaces the best only when strictly
\* cheaper.
C3_FirstFiniteMinimumWins ==
    (ExactSolved /\ \E q \in Perms(1..k) :
                       TourDistance(distances, <<Home>> \o q \o <<Home>>) # inf)
        => C3_FirstMinimumWins

\* C4 (as claimed): for 2 <= k <= 8, when every closed tour has an unreachable
\* leg, optimize_route still returns a closed tour (home first and last, every
\* waypoint once) with error = None.
C4_InfeasibleToursStillCompared ==
    (/\ rpc = "done" /\ provider = "OK" /\ k >= 2 /\ k <= BruteForceLimit
     /\ \A q \in Perms(1..k) :
           TourDistance(distances, <<Home>> \o q \o <<Home>>) = inf)
        => (/\ result.error = NoError
            /\ optimal_order # None
            /\ IsClosedTour(optimal_order)
            /\ Len(result.route) = k + 2)

\* C5: for k > 8 and any matrix, unreachable cells included, the loop of
\* _nearest_neighbor_tsp never appends a waypoint that is already in the
\* order, each iteration takes one waypoint out of unvisited, the loop ends
\* after exactly k iterations, and the order returned ends with home.
C5_NearestNeighborTerminates ==
    (k > BruteForceLimit /\ provider = "OK") =>
        /\ rpc = "nn_loop" =>
              /\ nn_iter <= k
              /\ Len(order) = nn_iter + 1
              /\ order[1] = Home
              /\ \A i \in 2..Len(order) : order[i] \in 1..k
              /\ \A i \in 1..Len(order) : \A j \in 1..Len(order) :
                    i # j => order[i] # order[j]
              /\ unvisited = (1..k) \ Range(order)
              /\ Cardinality(unvisited) = k - nn_iter
        /\ rpc \in {"assemble", "done"} =>
              /\ nn_iter = k
              /\ unvisited = {}
              /\ optimal_order = order
              /\ Len(optimal_order) = k + 2
              /\ optimal_order[Len(optimal_order)] = Home
              /\ \A i \in 1..(k + 1) : \A j \in 1..(k + 1) :
                    i # j => optimal_order[i] # optimal_order[j]

\* The heuristic ran to its end on a matrix with unreachable cells.
C5_Witness ==
    /\ rpc = "done" /\ provider = "OK" /\ k > BruteForceLimit
    /\ ~AllFinite
    /\ nn_iter = k
    /\ optimal_order[k + 2] = Home

-----------------------------------------------------------------------------
(* Properties of the route store (under StoreSpec).                        *)

\* This step is the return of a get_route(c) call.
GetReturns(c) ==
    \/ GetRouteInMemory(c)
    \/ GetRouteReadStep(c) /\ getc' = getc
    \/ GetRouteCheck /\ getc.code = c

\* The entry that the get_route(c) call returning in this step looks at: the
\* dict entry on the in-memory fallback, the snapshot it read on Firestore.
Looked(c) ==
    IF db = "firestore" /\ getc.pc = "check" THEN getc.data ELSE docs[c]

\* C6: on either backend, a store_route(code, X) that returned True followed
\* at once by get_route(code), with no time beyond the document's lifetime
\* in between and no backend call raising, returns exactly X: the four fields
\* route, total_distance, total_duration and google_maps_url, unchanged, and
\* neither created_at nor expires_at.
C6_PutThenGet ==
    [][\A c \in CallCodes :
          (/\ last.op = "put" /\ last.code = c /\ last.ok
           /\ GetReturns(c)
           /\ last'.ok
           /\ now <= docs[c].expires_at)
          => (/\ last'.value = last.value
              /\ DOMAIN last'.value = {"route", "total_distance",
                                       "total_duration", "google_maps_url"})
      ]_vars

\* On Firestore a get_route has returned a route right after the store_route
\* that wrote it.
C6_Witness ==
    /\ db = "firestore"
    /\ last.op = "get" /\ last.ok
    /\ last.prior = <<"put", last.code, TRUE>>
    /\ last.value \in RouteDatas

\* C7 (as claimed): get_route returns the payload only when now < expires_at;
\* at any time now >= expires_at, the instant now = expires_at included, it
\* reports absent.
C7_AbsentFromExpiry ==
    [][\A c \in CallCodes :
          (/\ GetReturns(c)
           /\ Looked(c) # NoDocument
           /\ now >= Looked(c).expires_at)
          => last'.value = None
      ]_vars

\* C7 (amended): get_route returns the payload only when now <= expires_at;
\* at any time now > expires_at it reports absent, and at the instant
\* now = expires_at (as at any earlier time, when no backend call raises) it
\* still returns the payload.
C7_AbsentAfterExpiry ==
    [][\A c \in CallCodes :
          (GetReturns(c) /\ Looked(c) # NoDocument)
          => (/\ now > Looked(c).expires_at => last'.value = None
              /\ last'.value # None => now <= Looked(c).expires_at
              /\ (now <= Looked(c).expires_at /\ last'.ok)
                    => last'.value # None)
      ]_vars

\* A get_route made at the very instant its document expires has returned
\* the route.
C7_Witness ==
    /\ last.op = "get" /\ last.ok
    /\ last.value # None
    /\ docs[last.code] # NoDocument
    /\ docs[last.code].expires_at = now

\* C8: a get_route(code) on an entry whose lifetime has elapsed
\* (expires_at < now), when no backend call raises, reports absent and leaves
\* the store as it is without that entry: the code holds what a code that was
\* never stored holds and every other entry is unchanged; and a get_route on
\* a code that holds nothing reports absent and changes nothing.
C8_ExpiredGetRemoves ==
    [][\A c \in CallCodes :
          /\ (/\ GetReturns(c)
              /\ Looked(c) # NoDocument
              /\ Looked(c).expires_at < now
              /\ last'.ok)
             => (/\ last'.value = None
                 /\ docs'[c] = NoDocument
                 /\ \A e \in Codes \ {c} : docs'[e] = docs[e])
          /\ (GetReturns(c) /\ Looked(c) = NoDocument)
             => (last'.value = None /\ docs' = docs)
      ]_vars

\* A route was stored, its lifetime went by, and the get_route that followed
\* reported absent and left nothing under the code.
C8_Witness ==
    /\ last.op = "get" /\ last.ok
    /\ last.prior = <<"put", last.code, TRUE>>
    /\ last.value = None
    /\ docs[last.code] = NoDocument

-----------------------------------------------------------------------------
(* Properties of the cleanup (under SweepSpec).                            *)

\* The codes whose document had expires_at < now when the cleanup began.
ExpiredBefore ==
    {c \in Codes : sweep.before[c] # NoDocument
                   /\ sweep.before[c].expires_at < sweep.now}

CeilDiv(a, b) == (a + b - 1) \div b

\* The codes of the batches of a list of commits, in order; with `which`,
\* only those of the batches that committed (TRUE) or failed (FALSE).
RECURSIVE BatchCodes(_, _)
BatchCodes(commits, which) ==
    IF commits = <<>> THEN <<>>
    ELSE (IF Head(commits)[2] \in which THEN Head(commits)[1] ELSE <<>>)
         \o BatchCodes(Tail(commits), which)

\* C9: with E expired documents, any number of others, a batch cap B and no
\* commit failure, the cleanup makes exactly ceil(E / B) batch commits of at
\* most B deletions each, removes exactly the E documents with
\* expires_at < now, reports (E, 0) (the storage method returns it, the
\* scheduled function prints it) and leaves every other document as it was.
\* On the in-memory fallback, which has no batches, it removes the same
\* documents and returns (E, 0).
C9_SweepBatches ==
    [][/\ (CleanupReturn /\ \A i \in 1..Len(sweep.commits) : sweep.commits[i][2])
          => LET E == Cardinality(ExpiredBefore)
             IN /\ Len(sweep.commits) = CeilDiv(E, MaxBatchSize)
                /\ \A i \in 1..Len(sweep.commits) :
                      /\ Len(sweep.commits[i][1]) >= 1
                      /\ Len(sweep.commits[i][1]) <= MaxBatchSize
                /\ docs = [c \in Codes |-> IF c \in ExpiredBefore
                                           THEN NoDocument
                                           ELSE sweep.before[c]]
                /\ last'.counts = <<E, 0>>
                /\ sweep.impl = "storage" => last'.value = <<E, 0>>
       /\ CleanupInMemory
          => LET gone == {c \in Codes : docs[c] # NoDocument
                                        /\ docs[c].expires_at < now}
             IN /\ docs' = [c \in Codes |-> IF c \in gone THEN NoDocument
                                            ELSE docs[c]]
                /\ last'.value = <<Cardinality(gone), 0>>
      ]_vars

\* A cleanup is about to return after three commits, two full batches and a
\* remainder, that deleted all the expired documents and left another one.
C9_Witness ==
    /\ sweep.pc = "return"
    /\ Len(sweep.commits) = 3
    /\ \A i \in 1..3 : sweep.commits[i][2]
    /\ Len(sweep.commits[1][1]) = MaxBatchSize
    /\ Len(sweep.commits[3][1]) < MaxBatchSize
    /\ sweep.deleted_count = Cardinality(ExpiredBefore)
    /\ \E c \in Codes : docs[c] # NoDocument

\* C10: a batch commit that fails does not end the cleanup (whose query and
\* scan do not raise): every expired document that the scan found is put in
\* a batch whose commit is attempted,
\* in the order found; the documents of the failed batches are counted in
\* error_count and stay, those of the committed batches are counted in
\* deleted_count and are gone; deleted_count + error_count is the number of
\* documents found.
C10_FailedBatchDoesNotAbort ==
    [][CleanupReturn
          => LET found == Stream(sweep.before, ExpiredBefore)
                 deleted == BatchCodes(sweep.commits, {TRUE})
                 failed == BatchCodes(sweep.commits, {FALSE})
             IN /\ BatchCodes(sweep.commits, BOOLEAN) = found
                /\ sweep.deleted_count = Len(deleted)
                /\ sweep.error_count = Len(failed)
                /\ last'.counts = <<Len(deleted), Len(failed)>>
                /\ Len(deleted) + Len(failed) = Len(found)
                /\ docs = [c \in Codes |-> IF c \in Range(deleted)
                                           THEN NoDocument
                                           ELSE sweep.before[c]]
      ]_vars

\* A cleanup is about to return after a batch that failed and a later batch
\* that committed.
C10_Witness ==
    /\ sweep.pc = "return"
    /\ \E i \in 1..Len(sweep.commits) : \E j \in (i + 1)..Len(sweep.commits) :
          ~sweep.commits[i][2] /\ sweep.commits[j][2]
    /\ sweep.error_count > 0
    /\ sweep.deleted_count > 0

-----------------------------------------------------------------------------
(* Further properties of the cleanup (under SweepSpec).                    *)

\* C11 (as claimed): on every execution path a cleanup ends by handing its
\* caller the counts and never by raising: failed batch commits and a failure
\* of the scan, at the query or while the stream is iterated, are reported
\* through the counts, by the storage method and by the scheduled function
\* alike.
C11_SweepNeverRaises ==
    last.op = "cleanup" => (last.ok /\ last.value # "raised")

\* The same statement for FirestoreStorage.cleanup_expired_routes alone,
\* which is where the code follows it: a failure of the scan adds one to
\* error_count and the pair is returned.
C11_StorageSweepNeverRaises ==
    (last.op = "cleanup" /\ last.impl = "storage")
        => (last.ok /\ last.value = last.counts)

-----------------------------------------------------------------------------
(* A get_route racing a cleanup (under RaceSpec).                          *)

\* C12: when get_route on an expired document runs at the same time as a
\* cleanup that deletes the same document, then in every interleaving of the
\* read, the expiry check and the delete of get_route with the query, the
\* batching and the commits of the cleanup, and when no backend call raises:
\* get_route returns None and the document is gone when it returns; the
\* cleanup, when none of its commits failed, ends with the document gone,
\* with every document its query found counted as deleted and none as an
\* error; a delete or a commit that finds the document already deleted by
\* the other is not a failure.
C12_GetRacesSweep ==
    [][/\ (GetReturns(RacedCode) /\ last'.ok)
          => (last'.value = None /\ docs'[RacedCode] = NoDocument)
       /\ (/\ sweep.pc = "return" /\ sweep'.pc = "idle"
           /\ \A i \in 1..Len(sweep.commits) : sweep.commits[i][2])
          => (/\ docs[RacedCode] = NoDocument
              /\ sweep.error_count = 0
              /\ sweep.deleted_count
                    = Len(BatchCodes(sweep.commits, {TRUE}))
              /\ Range(BatchCodes(sweep.commits, {TRUE}))
                    \subseteq ExpiredBefore
              /\ last'.ok)
      ]_vars

\* A get_route has read the expired document and, before its expiry check
\* and delete, a cleanup that held the same document in a batch has committed
\* it away.
C12_Witness ==
    /\ getc.pc = "check" /\ getc.code = RacedCode
    /\ docs[RacedCode] = NoDocument
    /\ sweep.pc \in {"loop", "return"}
    /\ \E i \in 1..Len(sweep.commits) :
          sweep.commits[i][2] /\ RacedCode \in Range(sweep.commits[i][1])

-----------------------------------------------------------------------------
(* The two backends compared (under StoreSpec).                            *)

\* What a caller can observe of a store: for each code, the four fields
\* get_route returns and the time from which it stops returning them.
View(store) ==
    [c \in DOMAIN store |->
        IF store[c] = NoDocument THEN NoDocument
        ELSE [data |-> WithoutMetadata(store[c]),
              expires_at |-> store[c].expires_at]]

\* The observable store after, and the value returned by, each call made at
\* clock reading t on an observable store; written without reference to the
\* backend.
ViewPut(view, c, d, t) ==
    [view EXCEPT ![c] = [data |-> d, expires_at |-> t + expiration_hours]]

ViewGet(view, c, t) ==
    IF view[c] = NoDocument THEN <<view, None>>
    ELSE IF view[c].expires_at < t
         THEN <<[view EXCEPT ![c] = NoDocument], None>>
         ELSE <<view, view[c].data>>

ViewDelete(view, c) == [view EXCEPT ![c] = NoDocument]

ViewSweep(view, t) ==
    LET gone == {c \in DOMAIN view :
                    view[c] # NoDocument /\ view[c].expires_at < t}
    IN <<[c \in DOMAIN view |-> IF c \in gone THEN NoDocument ELSE view[c]],
         <<Cardinality(gone), 0>>>>

\* C13: when no backend call fails, every store_route, get_route,
\* delete_route and cleanup_expired_routes call returns the same value and
\* leaves the same observable store on the in-memory fallback as on
\* Firestore: on either backend both are the one function of the observable
\* store before the call, the arguments and the clock reading, so that equal
\* sequences of calls give equal results call by call and equal sets of
\* retrievable codes.
C13_BackendsAgree ==
    [][/\ \A c \in CallCodes :
          /\ \A d \in RouteDatas :
                (/\ last'.op = "put" /\ last'.ok
                 /\ StoreRouteInMemory(c, d) \/ StoreRouteFirestore(c, d))
                => View(docs') = ViewPut(View(docs), c, d, now)
          /\ (last'.op = "get" /\ last'.ok /\ GetReturns(c))
                => <<View(docs'), last'.value>> = ViewGet(View(docs), c, now)
          /\ (/\ last'.op = "delete" /\ last'.ok
              /\ DeleteRouteInMemory(c) \/ DeleteRouteFirestore(c))
                => (View(docs') = ViewDelete(View(docs), c)
                    /\ last'.value = None)
       /\ (last'.op = "cleanup" /\ CleanupInMemory)
             => <<View(docs'), last'.value>> = ViewSweep(View(docs), now)
       /\ (/\ sweep.pc = "return" /\ sweep'.pc = "idle"
           /\ sweep.error_count = 0)
             => <<View(docs'), last'.value>>
                    = ViewSweep(View(sweep.before), sweep.now)
      ]_vars

\* On Firestore a cleanup has deleted an expired document and returned
\* (1, 0) after a get_route that returned a route.
C13_Witness ==
    /\ db = "firestore"
    /\ last.op = "cleanup" /\ last.ok
    /\ last.counts = <<1, 0>>
    /\ last.prior[1] = "get"
    /\ \E c \in CallCodes : docs[c] # NoDocument

-----------------------------------------------------------------------------
(* Frame properties of the store calls (under StoreSpec).                  *)

\* C14: a get_route on an entry that has not expired (now <= expires_at)
\* leaves the store as it is: the entry keeps its payload and its expires_at
\* (there is no renewal) and no other entry is added, removed or changed;
\* and store_route sets the expires_at of the entry it writes to
\* now + 24 hours and touches no other entry.
C14_NoRenewal ==
    [][\A c \in CallCodes :
          /\ GetRouteReadStep(c) => docs' = docs
          /\ (/\ GetReturns(c)
              /\ Looked(c) # NoDocument
              /\ now <= Looked(c).expires_at)
             => docs' = docs
          /\ \A d \in RouteDatas :
                (/\ last'.op = "put" /\ last'.ok
                 /\ StoreRouteInMemory(c, d) \/ StoreRouteFirestore(c, d))
                => (/\ docs'[c].expires_at = now + 24
                    /\ WithoutMetadata(docs'[c]) = d
                    /\ \A e \in Codes \ {c} : docs'[e] = docs[e])
      ]_vars

\* A get_route has returned a route stored some time before, and the entry
\* still expires 24 hours after it was stored, not 24 hours after the get.
C14_Witness ==
    /\ last.op = "get" /\ last.ok
    /\ last.value # None
    /\ docs[last.code] # NoDocument
    /\ docs[last.code].expires_at < now + expiration_hours
    /\ docs[last.code].expires_at > now

\* This step is a delete_route(c) call that no backend exception cut short.
DeleteReturns(c) ==
    /\ last'.op = "delete" /\ last'.ok
    /\ DeleteRouteInMemory(c) \/ DeleteRouteFirestore(c)

\* C15: delete_route(code), when the backend does not raise, removes the
\* entry of the code whether or not it has expired and leaves every other
\* entry as it is; on a code that holds nothing (a second delete of the same
\* code included) it returns without error and leaves the store unchanged;
\* and a get_route(code) that follows reports absent.
C15_DeleteIdempotent ==
    [][\A c \in CallCodes :
          /\ DeleteReturns(c)
             => (/\ docs'[c] = NoDocument
                 /\ \A e \in Codes \ {c} : docs'[e] = docs[e]
                 /\ docs[c] = NoDocument => docs' = docs
                 /\ last'.value = None)
          /\ (/\ last.op = "delete" /\ last.code = c /\ last.ok
              /\ GetReturns(c))
             => (last'.value = None /\ docs' = docs)
      ]_vars

\* A second delete_route of the same code has returned, on a store that
\* still holds another entry.
C15_Witness ==
    /\ last.op = "delete" /\ last.ok
    /\ last.prior = <<"delete", last.code, TRUE>>
    /\ docs[last.code] = NoDocument
    /\ \E e \in Codes : docs[e] # NoDocument

-----------------------------------------------------------------------------
(* Further properties of optimize_route (under RouteSpec).                 *)

\* C16: when the address list holds no index other than the home index
\* (k = 0), optimize_route returns an input error: a non-null error, an
\* empty route, totals of 0 and an empty share URL; and it returns before it
\* asks the distance matrix provider, whatever the provider would answer.
C16_NoWaypointsIsInputError ==
    (rpc = "done" /\ k = 0) =>
        /\ result.error = "No waypoints to visit (only home address found)"
        /\ result.error # NoError
        /\ result.route = <<>>
        /\ result.total_distance = 0 /\ result.total_duration = 0
        /\ result.google_maps_url = <<>>
        /\ distances = None /\ durations = None

\* A call without waypoints has returned while the provider would have
\* raised had it been asked.
C16_Witness ==
    /\ rpc = "done" /\ k = 0 /\ provider = "raise"
    /\ result # None

\* optimize_route has returned a result whose error is None.
Succeeded == rpc = "done" /\ result.error = NoError

\* C17: in every successful result the route has one step per element of the
\* computed order, in the same order; the step numbers are 1, 2, ..., k + 2;
\* and is_home is true for the first and the last step and false for every
\* step in between.
C17_StepsFollowOrder ==
    Succeeded =>
        /\ Len(result.route) = k + 2
        /\ Len(optimal_order) = k + 2
        /\ \A i \in 1..(k + 2) :
              /\ result.route[i].step = i
              /\ result.route[i].address = optimal_order[i]
              /\ result.route[i].notes = optimal_order[i]
              /\ result.route[i].is_home <=> i \in {1, k + 2}

\* The heuristic's order, on a matrix with unreachable cells, has been turned
\* into a route whose last step is home.
C17_Witness ==
    /\ Succeeded /\ k > BruteForceLimit /\ ~AllFinite
    /\ result.route[k + 2].is_home
    /\ result.route[k + 2].step = k + 2
    /\ ~result.route[2].is_home

\* The sum of the matrix values of the first n legs of ord, where leg i goes
\* from ord[i] to ord[i + 1].
RECURSIVE LegSum(_, _, _)
LegSum(matrix, ord, n) ==
    IF n = 0 THEN 0
    ELSE Add(LegSum(matrix, ord, n - 1), matrix[ord[n]][ord[n + 1]])

\* r is total, given in units of `unit`, rounded once to the nearest unit;
\* an infinite total stays infinite.
RoundedOnce(r, total, unit) ==
    IF total = inf THEN r = inf
    ELSE r # inf /\ 2 * r * unit - 2 * total <= unit
                 /\ 2 * total - 2 * r * unit <= unit

\* C18: in every successful result total_distance is the sum of
\* distances[order[i]][order[i+1]] over the k + 1 legs of the returned order,
\* converted to kilometres and rounded once, to 2 decimals (units of 10 m),
\* and total_duration is the sum of durations over the same legs, converted
\* to minutes and rounded once, to 1 decimal (units of 6 s): each differs
\* from the exact sum by at most half a unit, however many legs there are.
C18_TotalsAreLegSums ==
    Succeeded =>
        /\ RoundedOnce(result.total_distance,
                       LegSum(distances, optimal_order, k + 1), 10)
        /\ RoundedOnce(result.total_duration,
                       LegSum(durations, optimal_order, k + 1), 6)

\* A successful result of the exact search whose sums are not whole numbers
\* of units, so that the rounding shows.
C18_Witness ==
    /\ Succeeded /\ k > 2 /\ k <= BruteForceLimit /\ AllFinite
    /\ LegSum(distances, optimal_order, k + 1) % 10 \notin {0, 5}
    /\ LegSum(durations, optimal_order, k + 1) % 6 # 0

\* C19: at every iteration of the nearest-neighbour loop the waypoint appended
\* is an unvisited one whose cost from the current position no other
\* unvisited waypoint is below; among the waypoints tied for that minimum,
\* also when all of them are unreachable from the current position, it is
\* the one of lowest index; and it is the one taken out of unvisited and made
\* the current position, so that the loop goes on.
C19_NearestLowestIndex ==
    [][(rpc = "nn_loop" /\ nn_iter' = nn_iter + 1)
          => LET nearest == order'[Len(order')]
             IN /\ nearest \in unvisited
                /\ \A y \in unvisited :
                      ~Less(distances[current][y], distances[current][nearest])
                /\ \A y \in unvisited :
                      distances[current][y] = distances[current][nearest]
                         => nearest <= y
                /\ order' = Append(order, nearest)
                /\ unvisited' = unvisited \ {nearest}
                /\ current' = nearest
      ]_vars

\* The loop has just appended the lowest of several waypoints that were all
\* unreachable from the position it was at.
C19_Witness ==
    /\ rpc = "nn_loop" /\ nn_iter >= 1
    /\ Cardinality(unvisited) >= 2
    /\ LET from == order[Len(order) - 1]
           nearest == order[Len(order)]
       IN /\ \A y \in unvisited \cup {nearest} : distances[from][y] = inf
          /\ \A y \in unvisited : nearest < y

\* C20: optimize_route never partly succeeds.  Every result it returns is
\* either a success (error None, a route of k + 2 steps that is a closed tour
\* from home through every waypoint once, a share URL that is not empty) or a
\* failure (an error message, an empty route, both totals 0, an empty share
\* URL); this is so for every input and provider response, an exception
\* raised by the provider or inside the call included: none escapes it, and
\* nothing is returned before the call is done.
C20_NoPartialSuccess ==
    /\ rpc # "done" => result = None
    /\ rpc = "done" =>
          \/ /\ result.error = NoError
             /\ Len(result.route) = k + 2
             /\ IsClosedTour([i \in 1..(k + 2) |-> result.route[i].address])
             /\ result.google_maps_url # <<>>
          \/ /\ result.error \in {"No waypoints to visit (only home address found)",
                                  "Distance Matrix API error",
                                  "Route optimization failed"}
             /\ result.route = <<>>
             /\ result.total_distance = 0 /\ result.total_duration = 0
             /\ result.google_maps_url = <<>>

\* The exact search found no order on a matrix the provider answered with,
\* and the call has returned a failure with an empty route.
C20_Witness ==
    /\ rpc = "done" /\ provider = "OK" /\ k >= 2
    /\ optimal_order = None
    /\ result.error = "Route optimization failed"
    /\ result.route = <<>>

-----------------------------------------------------------------------------
(* store_route racing a get_route or a cleanup (under PutRaceSpec).        *)

\* This step removes the document of code c, by the delete of get_route or
\* by a batch commit of a cleanup.
RemovedByExpiry(c) ==
    /\ docs[c] # NoDocument /\ docs'[c] = NoDocument
    /\ getc.pc = "check" \/ sweep.pc \in {"commit", "loop"}

\* C21 (as claimed): under every interleaving of store_route, get_route (read,
\* then delete) and cleanup (query, then batch commits) on Firestore, a
\* document whose expires_at is still in the future at the moment it is
\* removed is never removed by get_route's expiry check or by a cleanup; so
\* also when store_route writes a new document under a code while a get_route
\* or a cleanup that saw the previous, expired document of that code is still
\* in progress.
C21_FreshEntryNeverRemoved ==
    [][\A c \in Codes : RemovedByExpiry(c) => docs[c].expires_at < now]_vars

-----------------------------------------------------------------------------
(* The endpoints of app.py on the store (under StoreSpec).                 *)

\* C22 (as claimed): every route_code that a successful optimize-route
\* request returns names an entry of the store: a get_route of that code
\* right afterwards, before anything stored under it can have expired and
\* with no read failing, returns the route, the totals and the URL that were
\* returned with the code; so also when the backend write inside store_route
\* failed.
C22_ReturnedCodeIsRetrievable ==
    [][\A c \in CallCodes :
          (/\ last.op = "put" /\ last.code = c
           /\ GetReturns(c)
           /\ last'.ok
           /\ Looked(c) # NoDocument => now <= Looked(c).expires_at)
          => LET response == OptimizeRouteResponse(last)
             IN /\ response.route_code = c
                /\ last'.value # None
                /\ last'.value = [route |-> response.route,
                                  total_distance |-> response.total_distance,
                                  total_duration |-> response.total_duration,
                                  google_maps_url |-> response.google_maps_url]
      ]_vars

-----------------------------------------------------------------------------
(* store_route on a code that is taken (under StoreSpec).                  *)

\* This step is a store_route(c, d) call whose backend write did not raise.
PutReturns(c, d) ==
    /\ last'.op = "put" /\ last'.ok
    /\ StoreRouteInMemory(c, d) \/ StoreRouteFirestore(c, d)

\* C23: a store_route(code, Y) whose write does not raise, on a code that
\* holds an entry X that has not expired, is neither refused nor does it keep
\* X: it returns True and puts a whole new entry in the place of X, with
\* payload Y and expires_at = the time of this call + 24 hours and no field
\* of X left over, and it changes no other entry; a get_route of the code
\* that returns right after it, before the new entry expires and with no read
\* failing, returns Y.
C23_PutOverwrites ==
    [][\A c \in CallCodes :
          /\ \A d \in RouteDatas :
                (/\ docs[c] # NoDocument
                 /\ now <= docs[c].expires_at
                 /\ PutReturns(c, d))
                => (/\ last'.value = d
                    /\ docs'[c] = IF db = "firestore"
                                  THEN FirestoreDocument(d, now)
                                  ELSE InMemoryEntry(d, now)
                    /\ WithoutMetadata(docs'[c]) = d
                    /\ docs'[c].expires_at = now + 24
                    /\ \A e \in Codes \ {c} : docs'[e] = docs[e])
          /\ (/\ last.op = "put" /\ last.code = c /\ last.ok
              /\ last.prior = <<"put", c, TRUE>>
              /\ GetReturns(c)
              /\ last'.ok
              /\ now <= Looked(c).expires_at)
             => last'.value = last.value
      ]_vars

\* A store_route has written a route under a code right after another
\* store_route wrote one under the same code, at most 24 hours earlier (so
\* the earlier entry had not expired), time has passed since the store was
\* empty, and the entry of the code now holds the payload of the second call
\* and expires 24 hours from now, while the other code holds an entry too.
C23_Witness ==
    /\ last.op = "put" /\ last.ok
    /\ last.prior = <<"put", last.code, TRUE>>
    /\ now > 0 /\ now <= expiration_hours
    /\ docs[last.code] # NoDocument
    /\ WithoutMetadata(docs[last.code]) = last.value
    /\ docs[last.code].expires_at = now + expiration_hours
    /\ \E e \in CallCodes \ {last.code} : docs[e] # NoDocument

=============================================================================
